---- MODULE Spec2Model ----
(***************************************************************************)
(* State-machine model of the option-chain resolver (Options_parser.py)    *)
(* and of the review collector (Appstore_reader.py).                       *)
(*                                                                         *)
(* Python strings are sequences of one-character strings, so that strip,   *)
(* split, substring search and lower() are computed, not assumed.  JSON    *)
(* values are tagged records [t |-> tag, v |-> content].                   *)
(***************************************************************************)
EXTENDS Integers, Sequences, FiniteSets, TLC

VARIABLES
    \* normalize_option_code driver
    npc, raw, once, twice,
    \* find_contract_in_payload / extract_expirations driver
    ppc, payload, pcode, found, extracted,
    \* get_option_quote_by_code
    qpc, option_code, fetched, expirations, tried, log, result,
    \* collect_reviews
    rpc, max_reviews, page, collected, fetches, lastRows, rresult

vars == <<npc, raw, once, twice, ppc, payload, pcode, found, extracted,
          qpc, option_code, fetched, expirations, tried, log, result,
          rpc, max_reviews, page, collected, fetches, lastRows, rresult>>

normVars == <<npc, raw, once, twice>>
payloadVars == <<ppc, payload, pcode, found, extracted>>
quoteVars == <<qpc, option_code, fetched, expirations, tried, log, result>>
reviewVars == <<rpc, max_reviews, page, collected, fetches, lastRows, rresult>>

-----------------------------------------------------------------------------
(* Bounds of the model *)

\* longest raw input handed to normalize_option_code
MaxLen == 6
\* most rows in a provider table
MaxRows == 2
\* most entries in one expirations list of a payload
MaxExpLen == 2
\* largest max_reviews a caller asks for
MaxReviews == 51
\* most review entries one feed page parses to
MaxPageRows == 2

-----------------------------------------------------------------------------
(* Python str operations on sequences of characters *)

LowerChar(c) ==
    CASE c = "A" -> "a"
      [] c = "B" -> "b"
      [] c = "C" -> "c"
      [] c = "D" -> "d"
      [] c = "M" -> "m"
      [] c = "P" -> "p"
      [] OTHER -> c

\* str.lower()
Lower(s) == [i \in 1..Len(s) |-> LowerChar(s[i])]

IsSpace(c) == c = " "

\* str.strip()
Strip(s) ==
    LET keep == {i \in 1..Len(s) : ~IsSpace(s[i])}
    IN  IF keep = {} THEN <<>>
        ELSE LET lo == CHOOSE i \in keep : \A j \in keep : i <= j
                 hi == CHOOSE i \in keep : \A j \in keep : j <= i
             IN  SubSeq(s, lo, hi)

\* the positions at which sub occurs in s
Occurrences(sub, s) ==
    {i \in 1..(Len(s) - Len(sub) + 1) : SubSeq(s, i, i + Len(sub) - 1) = sub}

\* sub in s
Contains(sub, s) == Len(sub) = 0 \/ Occurrences(sub, s) # {}

\* s.split(sep, 1)[0]
BeforeFirst(sep, s) ==
    LET occ == Occurrences(sep, s)
    IN  IF occ = {} THEN s
        ELSE SubSeq(s, 1, (CHOOSE i \in occ : \A j \in occ : i <= j) - 1)

\* s.split(sep, 1)[-1]
AfterFirst(sep, s) ==
    LET occ == Occurrences(sep, s)
    IN  IF occ = {} THEN s
        ELSE SubSeq(s, (CHOOSE i \in occ : \A j \in occ : i <= j) + Len(sep), Len(s))

\* s.rsplit(sep, 1)[-1]
AfterLast(sep, s) ==
    LET occ == Occurrences(sep, s)
    IN  IF occ = {} THEN s
        ELSE SubSeq(s, (CHOOSE i \in occ : \A j \in occ : j <= i) + Len(sep), Len(s))

\* s.rstrip("/")
RStripSlash(s) ==
    LET keep == {i \in 1..Len(s) : s[i] # "/"}
    IN  IF keep = {} THEN <<>>
        ELSE SubSeq(s, 1, CHOOSE i \in keep : \A j \in keep : j <= i)

SchemeDelim == <<":", "/", "/">>
SlugSep == <<"-", "-", "-">>

\* the URL branch of normalize_option_code (lines 41-42)
LastPathSegment(s) == AfterLast(<<"/">>, RStripSlash(BeforeFirst(<<"?">>, s)))

\* the slug branch of normalize_option_code (line 44), mutated: rsplit
SlugTail_rsplit(s) == AfterLast(SlugSep, s)

\* the slug branch of normalize_option_code (line 44)
SlugTail(s) == AfterFirst(SlugSep, s)

normalize_option_code(x) ==
    LET s0 == Strip(x)
        s1 == IF Contains(SchemeDelim, s0) THEN LastPathSegment(s0) ELSE s0
        s2 == IF Contains(SlugSep, s1) THEN SlugTail(s1) ELSE s1
    IN  Lower(s2)

-----------------------------------------------------------------------------
(* JSON values as json.loads returns them *)

JNull == [t |-> "null", v |-> 0]
JNum(n) == [t |-> "num", v |-> n]
JStr(s) == [t |-> "str", v |-> s]
JList(xs) == [t |-> "list", v |-> xs]
JDict(f) == [t |-> "dict", v |-> f]
EmptyDict == JDict(<<>>)
EmptyList == JList(<<>>)

IsDict(x) == x.t = "dict"
IsList(x) == x.t = "list"
IsStr(x) == x.t = "str"

\* Python truth value of a JSON value
Truthy(x) ==
    CASE x.t = "null" -> FALSE
      [] x.t = "num" -> x.v # 0
      [] x.t = "str" -> Len(x.v) > 0
      [] x.t = "list" -> Len(x.v) > 0
      [] x.t = "dict" -> DOMAIN x.v # {}

\* d.get(k) on a dict d: None when the key is absent
Get(d, k) == IF k \in DOMAIN d.v THEN d.v[k] ELSE JNull

\* x or default
OrElse(x, default) == IF Truthy(x) THEN x ELSE default

\* str(x) for the entries an expirations list holds here: strings and digits
DigitChars == <<"0", "1", "2", "3", "4", "5", "6", "7", "8", "9">>
Str(x) ==
    CASE x.t = "str" -> x.v
      [] x.t = "num" -> <<DigitChars[x.v + 1]>>

-----------------------------------------------------------------------------
(* Parsing helpers of Options_parser.py.  A helper that can raise returns  *)
(* a record whose exc field tells whether AttributeError was raised.       *)

\* payload.get("data") or {}  (lines 54 and 66); payload.get raises on a non-dict
payload_data(p) ==
    IF ~IsDict(p) THEN [exc |-> TRUE, val |-> JNull]
    ELSE [exc |-> FALSE, val |-> OrElse(Get(p, "data"), EmptyDict)]

iter_option_rows(p) ==
    LET d == payload_data(p)
    IN  IF d.exc \/ ~IsDict(d.val) THEN [exc |-> TRUE, rows |-> <<>>]
        ELSE LET table == OrElse(Get(d.val, "table"), EmptyDict)
             IN  IF ~IsDict(table) THEN [exc |-> TRUE, rows |-> <<>>]
                 ELSE LET rows == OrElse(Get(table, "rows"), EmptyList)
                      IN  [exc |-> FALSE,
                           rows |-> IF IsList(rows) THEN rows.v ELSE <<>>]

ExpirationKeys == <<"expirations", "expirationDates", "dates", "expirationDateList">>

\* [str(x) for x in v if x]
TruthyStrs(xs) ==
    LET keep == {i \in 1..Len(xs) : Truthy(xs[i])}
        F[i \in 0..Len(xs)] ==
            IF i = 0 THEN <<>>
            ELSE IF i \in keep THEN Append(F[i - 1], Str(xs[i])) ELSE F[i - 1]
    IN  F[Len(xs)]

\* what one key of data contributes to candidates (lines 71-78)
KeyCandidates(data, key) ==
    LET v == Get(data, key)
    IN  IF IsList(v) THEN TruthyStrs(v.v)
        ELSE IF IsDict(v)
             THEN LET rows == Get(v, "rows")
                  IN  IF IsList(rows) THEN TruthyStrs(rows.v) ELSE <<>>
             ELSE <<>>

\* the loop of lines 70-78, mutated: only the first key that yields a list counts
Candidates_firstKeyOnly(data) ==
    LET hit == {i \in 1..Len(ExpirationKeys) :
                   IsList(Get(data, ExpirationKeys[i]))
                   \/ (IsDict(Get(data, ExpirationKeys[i]))
                       /\ IsList(Get(Get(data, ExpirationKeys[i]), "rows")))}
    IN  IF hit = {} THEN <<>>
        ELSE KeyCandidates(data, ExpirationKeys[CHOOSE i \in hit : \A j \in hit : i <= j])

\* the loop of lines 70-78: every key extends candidates
Candidates(data) ==
    LET F[i \in 0..Len(ExpirationKeys)] ==
            IF i = 0 THEN <<>>
            ELSE F[i - 1] \o KeyCandidates(data, ExpirationKeys[i])
    IN  F[Len(ExpirationKeys)]

\* de-dup, keep order (lines 81-86)
Dedup(xs) ==
    LET F[i \in 0..Len(xs)] ==
            IF i = 0 THEN <<>>
            ELSE IF \E j \in 1..(i - 1) : xs[j] = xs[i] THEN F[i - 1]
                 ELSE Append(F[i - 1], xs[i])
    IN  F[Len(xs)]

extract_expirations(p) ==
    LET d == payload_data(p)
    IN  IF d.exc \/ ~IsDict(d.val) THEN [exc |-> TRUE, list |-> <<>>]
        ELSE [exc |-> FALSE, list |-> Dedup(Candidates(d.val))]

SymbolKeys == <<"optionSymbol", "symbol", "contractSymbol", "displaySymbol">>

\* isinstance(v, str) and option_code in v.lower()
StrHolds(v, code) == IsStr(v) /\ Contains(code, Lower(v.v))

match_contract_dict(d, code) ==
    IF ~IsDict(d) THEN FALSE
    ELSE LET c == Lower(code)
         IN  \/ \E i \in 1..Len(SymbolKeys) : StrHolds(Get(d, SymbolKeys[i]), c)
             \/ \E k \in DOMAIN d.v : StrHolds(d.v[k], c)

key_map == <<
    <<"optionSymbol", "option_symbol">>,
    <<"symbol", "option_symbol">>,
    <<"contractSymbol", "option_symbol">>,
    <<"displaySymbol", "option_symbol">>,
    <<"bid", "bid">>,
    <<"ask", "ask">>,
    <<"last", "last">>,
    <<"lastPrice", "last">>,
    <<"lastSalePrice", "last">>,
    <<"volume", "volume">>,
    <<"openInterest", "open_interest">>,
    <<"impliedVolatility", "iv">>,
    <<"strikePrice", "strike">>,
    <<"expirationDate", "expiration">>,
    <<"expiryDate", "expiration">> >>

\* src in contract and contract[src] not in (None, "")
HasValue(contract, src) ==
    /\ src \in DOMAIN contract.v
    /\ contract.v[src] # JNull
    /\ contract.v[src] # JStr(<<>>)

\* the renamed fields of normalize_quote_fields; _raw is kept beside them
normalize_quote_fields(contract) ==
    LET srcs(dst) == {i \in 1..Len(key_map) :
                         key_map[i][2] = dst /\ HasValue(contract, key_map[i][1])}
        dsts == {key_map[i][2] : i \in {j \in 1..Len(key_map) :
                                           HasValue(contract, key_map[j][1])}}
    IN  [fields |-> [dst \in dsts |->
                        contract.v[key_map[CHOOSE i \in srcs(dst) :
                                              \A j \in srcs(dst) : i <= j][1]]],
         raw |-> contract]

NoMatch == [kind |-> "none", type |-> "", fields |-> <<>>, raw |-> JNull]
Raised == [kind |-> "exc", type |-> "", fields |-> <<>>, raw |-> JNull]
Match(contract, type) ==
    LET out == normalize_quote_fields(contract)
    IN  [kind |-> "found", type |-> type, fields |-> out.fields, raw |-> out.raw]

\* the body of the row loop of find_contract_in_payload, from row i on
RECURSIVE FindFrom(_, _, _)
FindFrom(rows, i, code) ==
    IF i > Len(rows) THEN NoMatch
    ELSE LET row == rows[i]
         IN  IF ~IsDict(row) THEN Raised
             ELSE IF match_contract_dict(Get(row, "call"), code)
                  THEN Match(Get(row, "call"), "call")
             ELSE IF match_contract_dict(Get(row, "put"), code)
                  THEN Match(Get(row, "put"), "put")
             ELSE IF match_contract_dict(row, code)
                  THEN Match(row, "unknown")
             ELSE FindFrom(rows, i + 1, code)

find_contract_in_payload(p, code) ==
    LET it == iter_option_rows(p)
    IN  IF it.exc THEN Raised ELSE FindFrom(it.rows, 1, code)

-----------------------------------------------------------------------------
(* The inputs the drivers draw from *)

\* characters of raw normalizer inputs
Chars == {" ", ":", "/", "?", "-", "A"}
RawInputs == UNION {[1..n -> Chars] : n \in 0..MaxLen}

\* "271217C00370000" and the put of the same date and strike
CodeUpper == <<"2", "7", "1", "2", "1", "7", "C", "0", "0", "3", "7", "0", "0", "0", "0">>
PutUpper == [CodeUpper EXCEPT ![7] = "P"]
Amd == <<"A", "M", "D">>
CallSymbol == Amd \o CodeUpper
PutSymbol == Amd \o PutUpper

\* option codes a caller passes: bare, slug, URL-less garbage, empty
CodeInputs == {
    CodeUpper,
    Lower(PutUpper),
    Amd \o SlugSep \o CodeUpper,
    SubSeq(CodeUpper, 1, 7),
    <<"a", "b", "c", "1", "2", "3">>,
    <<>> }

CallContract == JDict(("symbol" :> JStr(CallSymbol)) @@ ("ask" :> JNum(1)))
PutContract == JDict(("symbol" :> JStr(Lower(PutSymbol))) @@ ("ask" :> JNum(2))
                     @@ ("expiryDate" :> JStr(<<"e", "1">>)))
NoteContract == JDict(("note" :> JStr(Lower(CallSymbol))) @@ ("symbol" :> JNull))

\* rows a provider table holds; the last is not an object
RowVals == {
    JDict(("call" :> CallContract) @@ ("put" :> PutContract)),
    JDict(("call" :> JNull) @@ ("put" :> PutContract)),
    JDict(("call" :> NoteContract)),
    JDict(("symbol" :> JStr(Lower(CallSymbol))) @@ ("strikePrice" :> JNum(3))),
    JDict(("call" :> JDict("symbol" :> JStr(<<"x">>))) @@ ("put" :> JStr(<<"x">>))),
    JDict(("call" :> JStr(CallSymbol))),
    EmptyDict,
    JStr(<<"x">>) }

RowLists == UNION {[1..n -> RowVals] : n \in 0..MaxRows}

\* values of a key that should hold an object or a list: absent is modelled
\* by leaving the key out, the rest are null and values of the wrong type
WrongVals == {JNull, JNum(0), JStr(<<"x">>), JList(<<JNum(1)>>)}

RowsVals == {JList(rs) : rs \in RowLists} \cup WrongVals \cup {EmptyDict}
TableVals == {JDict("rows" :> r) : r \in RowsVals} \cup WrongVals \cup {EmptyDict}

\* entries of an expirations list: two strings, a digit equal to one of them
\* once stringified, and falsy entries
ExpEntries == {JStr(<<"e", "1">>), JStr(<<"1">>), JNum(1), JNum(0), JNull}
ExpLists == UNION {[1..n -> ExpEntries] : n \in 0..MaxExpLen}
ExpKeyVals ==
    {JList(xs) : xs \in ExpLists}
    \cup {JDict("rows" :> JList(xs)) : xs \in ExpLists}
    \cup {JDict("rows" :> JStr(<<"x">>)), EmptyDict, JStr(<<"x">>)}
DatesKeyVals == {
    JList(<<JStr(<<"e", "1">>)>>),
    JList(<<JStr(<<"1">>), JStr(<<"e", "1">>)>>),
    JDict("rows" :> JList(<<JNum(1)>>)),
    JStr(<<"x">>) }
OtherKeyVals == {JList(<<JStr(<<"e", "2">>)>>), JList(<<JStr(<<"e", "1">>), JStr(<<"e", "2">>)>>)}

\* a dict from the keys of ks whose value in f is not the marker Absent
Absent == [t |-> "absent", v |-> 0]
DictOf(f) == JDict([k \in {k \in DOMAIN f : f[k] # Absent} |-> f[k]])

\* data objects that vary the four expiration keys
ExpDatas ==
    {DictOf([expirations |-> a, expirationDates |-> b, dates |-> c,
             expirationDateList |-> d, table |-> Absent]) :
        a \in ExpKeyVals \cup {Absent}, b \in OtherKeyVals \cup {Absent},
        c \in DatesKeyVals \cup {Absent}, d \in OtherKeyVals \cup {Absent}}

\* data objects that vary the table
TableDatas ==
    {DictOf([table |-> tb, expirations |-> e]) :
        tb \in TableVals \cup {Absent},
        e \in {Absent, JList(<<JStr(<<"e", "1">>)>>)}}

Payloads ==
    {JDict("data" :> d) : d \in ExpDatas \cup TableDatas \cup WrongVals}
    \cup {EmptyDict}

Idle == "idle"

(* What the variables of the other drivers hold while one runs *)

IdleNorm == npc = Idle /\ raw = Idle /\ once = Idle /\ twice = Idle
IdlePayload == ppc = Idle /\ payload = Idle /\ pcode = Idle /\ found = Idle /\ extracted = Idle
IdleQuote ==
    /\ qpc = Idle /\ option_code = Idle /\ fetched = Idle /\ expirations = Idle
    /\ tried = Idle /\ log = Idle /\ result = Idle
IdleReviews ==
    /\ rpc = Idle /\ max_reviews = Idle /\ page = Idle /\ collected = Idle
    /\ fetches = Idle /\ lastRows = Idle /\ rresult = Idle

-----------------------------------------------------------------------------
(* Driver of normalize_option_code: normalize an input, then the result    *)

InitNorm ==
    /\ npc = "raw"
    /\ raw \in RawInputs
    /\ once = Idle
    /\ twice = Idle
    /\ IdlePayload /\ IdleQuote /\ IdleReviews

Normalize ==
    /\ npc = "raw"
    /\ once' = normalize_option_code(raw)
    /\ npc' = "once"
    /\ UNCHANGED <<raw, twice>>

Renormalize ==
    /\ npc = "once"
    /\ twice' = normalize_option_code(once)
    /\ npc' = "twice"
    /\ UNCHANGED <<raw, once>>

(* Driver of find_contract_in_payload and extract_expirations *)

InitPayload ==
    /\ ppc = "new"
    /\ payload \in Payloads
    /\ pcode \in {Lower(CodeUpper), Lower(PutUpper), <<>>}
    /\ found = Idle
    /\ extracted = Idle
    /\ IdleNorm /\ IdleQuote /\ IdleReviews

Find ==
    /\ ppc = "new"
    /\ found' = find_contract_in_payload(payload, pcode)
    /\ ppc' = "found"
    /\ UNCHANGED <<payload, pcode, extracted>>

Extract ==
    /\ ppc = "found"
    /\ extracted' = extract_expirations(payload)
    /\ ppc' = "extracted"
    /\ UNCHANGED <<payload, pcode, found>>

NextNorm ==
    \/ Normalize /\ UNCHANGED <<payloadVars, quoteVars, reviewVars>>
    \/ Renormalize /\ UNCHANGED <<payloadVars, quoteVars, reviewVars>>

SpecNorm == InitNorm /\ [][NextNorm]_vars

NextPayload ==
    \/ Find /\ UNCHANGED <<normVars, quoteVars, reviewVars>>
    \/ Extract /\ UNCHANGED <<normVars, quoteVars, reviewVars>>

SpecPayload == InitPayload /\ [][NextPayload]_vars

-----------------------------------------------------------------------------
(* get_option_quote_by_code: one action per fetch_chain call, each with    *)
(* everything the function does up to its next fetch or its exit.          *)
(* fetched is what the latest fetch_chain call gave (payload, payload2).   *)
(* symbol only names the URL and the quote's underlying, and log_fn only   *)
(* reports progress: neither decides a step, and neither is a variable.    *)

\* what fetch_chain gives back: a payload, or an exception of http_get_json
FetchError == [t |-> "error", v |-> 0]
\* before the first request
NoFetch == [t |-> "none", v |-> 0]

TableOf(rows) == JDict("data" :> JDict("table" :> JDict("rows" :> JList(rows))))

\* default payloads: the table varied, or the expiration keys expirations
\* and dates varied; their candidates are "e1" and "1", so at most two
DefaultPayloads ==
    {JDict("data" :> d) : d \in TableDatas \cup WrongVals}
    \cup {JDict("data" :> DictOf([expirations |-> a, dates |-> c])) :
             a \in ExpKeyVals \cup {Absent}, c \in DatesKeyVals \cup {Absent}}
    \cup {EmptyDict}

\* payloads of the sweep requests
SweepPayloads == {
    TableOf(<<JDict(("call" :> CallContract) @@ ("put" :> PutContract))>>),
    TableOf(<<EmptyDict, JDict("symbol" :> JStr(Lower(CallSymbol)))>>),
    TableOf(<<JDict("call" :> JDict("symbol" :> JStr(<<"x">>)))>>),
    TableOf(<<>>),
    TableOf(<<JStr(<<"x">>)>>),
    JDict("data" :> JStr(<<"x">>)),
    JDict("data" :> JNull),
    JDict("data" :> JDict("table" :> JList(<<JNum(1)>>))) }

param_names == <<"expirationdate", "expirationDate", "expiryDate", "date", "expiration">>

NoResult == [kind |-> "none", type |-> "", fields |-> <<>>, raw |-> JNull,
             queried_expiration |-> <<>>, queried_param |-> "", checked |-> 0]

\* an exception that leaves get_option_quote_by_code
Failure(kind, n) == [NoResult EXCEPT !.kind = kind, !.checked = n]

\* found.update(...) of lines 182 and 212-218
Quote(f, exp, pname) ==
    [NoResult EXCEPT !.kind = "quote", !.type = f.type, !.fields = f.fields,
                     !.raw = f.raw, !.queried_expiration = exp,
                     !.queried_param = pname]

\* the n-th pair of the nested loops, mutated: parameter names outermost
SweepPair_paramOuter(exps, n) ==
    [exp |-> exps[((n - 1) % Len(exps)) + 1],
     pname |-> param_names[((n - 1) \div Len(exps)) + 1]]

\* the n-th (exp, pname) pair of the nested loops of lines 199-200
SweepPair(exps, n) ==
    [exp |-> exps[((n - 1) \div Len(param_names)) + 1],
     pname |-> param_names[((n - 1) % Len(param_names)) + 1]]

SweepSize(exps) == Len(exps) * Len(param_names)

Logged(exps, n, outcome) ==
    [exp |-> SweepPair(exps, n).exp, pname |-> SweepPair(exps, n).pname,
     outcome |-> outcome]

\* after attempt n left no match: the next pair, or the raise of line 221
Continue(exps, n, lg) ==
    IF n < SweepSize(exps)
    THEN [qpc |-> "sweep", tried |-> n, log |-> lg, result |-> NoResult]
    ELSE [qpc |-> "done", tried |-> n, log |-> lg,
          result |-> Failure("NotFound", Len(exps))]

\* a failed sweep fetch, mutated: the exception leaves the function
OnFetchError_propagate(exps, n, lg) ==
    [qpc |-> "done", tried |-> n, log |-> Append(lg, Logged(exps, n, "fail")),
     result |-> Failure("NetworkError", 0)]

\* except Exception: continue  (lines 207-208)
OnFetchError(exps, n, lg) == Continue(exps, n, Append(lg, Logged(exps, n, "fail")))

\* lines 210-219 on the payload of attempt n
OnPayload(code, exps, n, lg, p) ==
    LET f == find_contract_in_payload(p, code)
    IN  CASE f.kind = "exc" ->
               [qpc |-> "done", tried |-> n,
                log |-> Append(lg, Logged(exps, n, "raise")),
                result |-> Failure("AttributeError", 0)]
          [] f.kind = "found" ->
               [qpc |-> "done", tried |-> n,
                log |-> Append(lg, Logged(exps, n, "hit")),
                result |-> Quote(f, SweepPair(exps, n).exp, SweepPair(exps, n).pname)]
          [] f.kind = "none" ->
               Continue(exps, n, Append(lg, Logged(exps, n, "miss")))

\* lines 180-193 on the payload of the default request
OnDefaultPayload(code, p) ==
    LET f == find_contract_in_payload(p, code)
        e == extract_expirations(p)
        stop(r) == [qpc |-> "done", expirations |-> <<>>, result |-> r]
    IN  CASE f.kind = "exc" -> stop(Failure("AttributeError", 0))
          [] f.kind = "found" -> stop(Quote(f, <<>>, ""))
          [] f.kind = "none" /\ e.exc -> stop(Failure("AttributeError", 0))
          [] f.kind = "none" /\ ~e.exc /\ e.list = <<>> ->
               stop(Failure("NoExpirations", 0))
          [] OTHER -> [qpc |-> "sweep", expirations |-> e.list, result |-> NoResult]

InitQuote ==
    /\ qpc = "default"
    /\ option_code \in CodeInputs
    /\ fetched = NoFetch
    /\ expirations = <<>>
    /\ tried = 0
    /\ log = <<>>
    /\ result = NoResult
    /\ IdleNorm /\ IdlePayload /\ IdleReviews

\* lines 175-193: normalize, the default request, and what follows from it
DefaultFails ==
    /\ qpc = "default"
    /\ option_code' = normalize_option_code(option_code)
    /\ fetched' = FetchError
    /\ qpc' = "done"
    /\ result' = Failure("NetworkError", 0)
    /\ UNCHANGED <<expirations, tried, log>>

DefaultReturns ==
    /\ qpc = "default"
    /\ option_code' = normalize_option_code(option_code)
    /\ \E p \in DefaultPayloads :
          LET nx == OnDefaultPayload(option_code', p)
          IN  /\ fetched' = p
              /\ qpc' = nx.qpc
              /\ expirations' = nx.expirations
              /\ result' = nx.result
    /\ UNCHANGED <<tried, log>>

\* one pass of the inner loop body, lines 201-219, the fetch raising
SweepFails ==
    /\ qpc = "sweep"
    /\ fetched' = FetchError
    /\ LET nx == OnFetchError(expirations, tried + 1, log)
       IN  /\ qpc' = nx.qpc
           /\ tried' = nx.tried
           /\ log' = nx.log
           /\ result' = nx.result
    /\ UNCHANGED <<option_code, expirations>>

\* one pass of the inner loop body, lines 201-219, the fetch returning
SweepReturns ==
    /\ qpc = "sweep"
    /\ \E p \in SweepPayloads :
          LET nx == OnPayload(option_code, expirations, tried + 1, log, p)
          IN  /\ fetched' = p
              /\ qpc' = nx.qpc
              /\ tried' = nx.tried
              /\ log' = nx.log
              /\ result' = nx.result
    /\ UNCHANGED <<option_code, expirations>>

Next ==
    \/ DefaultFails /\ UNCHANGED <<normVars, payloadVars, reviewVars>>
    \/ DefaultReturns /\ UNCHANGED <<normVars, payloadVars, reviewVars>>
    \/ SweepFails /\ UNCHANGED <<normVars, payloadVars, reviewVars>>
    \/ SweepReturns /\ UNCHANGED <<normVars, payloadVars, reviewVars>>

Spec == InitQuote /\ [][Next]_vars

-----------------------------------------------------------------------------
(* collect_reviews: one action per pass of the while loop, and its exit.   *)
(* collected is len(collected); fetches lists the pages asked of the feed. *)

\* the safety guard of line 129
MaxPages == 50

\* line 129, mutated: no page ceiling
PageGuard_off(p) == FALSE

\* if page > 50: break
PageGuard(p) == p > MaxPages

\* the for loop of lines 120-123: append rows until max_reviews is reached
Appended(have, n, want) == IF have + n <= want THEN have + n ELSE want

InitReviews ==
    /\ rpc = "loop"
    /\ max_reviews \in 0..MaxReviews
    /\ page = 1
    /\ collected = 0
    /\ fetches = <<>>
    /\ lastRows = -1
    /\ rresult = "running"
    /\ IdleNorm /\ IdlePayload /\ IdleQuote

\* the loop test of line 104 fails: return collected
ReturnCollected ==
    /\ rpc = "loop"
    /\ ~(collected < max_reviews)
    /\ rpc' = "done"
    /\ rresult' = "returned"
    /\ UNCHANGED <<max_reviews, page, collected, fetches, lastRows>>

\* fetch_feed raises: RuntimeError (lines 105-108)
FetchFails ==
    /\ rpc = "loop"
    /\ collected < max_reviews
    /\ fetches' = Append(fetches, page)
    /\ rpc' = "done"
    /\ rresult' = "RuntimeError"
    /\ UNCHANGED <<max_reviews, page, collected, lastRows>>

\* parse_reviews raises on text that is not XML: ParseError leaves the function
ParseFails ==
    /\ rpc = "loop"
    /\ collected < max_reviews
    /\ fetches' = Append(fetches, page)
    /\ rpc' = "done"
    /\ rresult' = "ParseError"
    /\ UNCHANGED <<max_reviews, page, collected, lastRows>>

\* the page parses to n review rows (lines 113-132)
PageParsed ==
    /\ rpc = "loop"
    /\ collected < max_reviews
    /\ fetches' = Append(fetches, page)
    /\ \E n \in 0..MaxPageRows :
          /\ lastRows' = n
          /\ IF n = 0
             THEN /\ rpc' = "done"
                  /\ rresult' = "returned"
                  /\ UNCHANGED <<page, collected>>
             ELSE /\ collected' = Appended(collected, n, max_reviews)
                  /\ page' = page + 1
                  /\ IF PageGuard(page')
                     THEN rpc' = "done" /\ rresult' = "returned"
                     ELSE rpc' = "loop" /\ rresult' = "running"
    /\ UNCHANGED max_reviews

NextReviews ==
    \/ ReturnCollected /\ UNCHANGED <<normVars, payloadVars, quoteVars>>
    \/ FetchFails /\ UNCHANGED <<normVars, payloadVars, quoteVars>>
    \/ ParseFails /\ UNCHANGED <<normVars, payloadVars, quoteVars>>
    \/ PageParsed /\ UNCHANGED <<normVars, payloadVars, quoteVars>>

SpecReviews == InitReviews /\ [][NextReviews]_vars

\* every fetch has a fixed timeout and the loop is sequential: a pass that
\* can be taken is taken
LiveReviews == InitReviews /\ [][NextReviews]_vars /\ WF_vars(NextReviews)

C10Pages == \A i \in 1..Len(fetches) : fetches[i] = i

C10Safe ==
    rpc # Idle =>
        /\ Len(fetches) <= MaxPages
        /\ C10Pages
        /\ collected <= max_reviews

C10Stops ==
    Len(fetches') > Len(fetches) =>
        /\ lastRows # 0
        /\ Len(fetches) < MaxPages
        /\ collected < max_reviews

\* C10: collect_reviews always ends; it asks for pages 1, 2, 3, ... in turn,
\* asks for no page after a page with no review rows, after page 50, or once
\* max_reviews rows are collected; so at most 50 fetches and at most
\* max_reviews rows
C10_CollectEndsWithinLimits ==
    /\ []C10Safe
    /\ [][C10Stops]_vars
    /\ <>(rpc = "done")

\* the page ceiling ended a collection that still wanted rows
C10_Witness ==
    /\ rpc = "done"
    /\ rresult = "returned"
    /\ Len(fetches) = MaxPages
    /\ lastRows > 0
    /\ collected < max_reviews

-----------------------------------------------------------------------------
(* Properties of get_option_quote_by_code, under Spec *)

Sweeping == qpc \in {"sweep", "done"}
PairOf(e) == <<e.exp, e.pname>>

\* the pair the nested loops reach at their i-th pass: expirations outermost,
\* the five parameter names innermost
OrderedPair(i) ==
    <<expirations[((i - 1) \div 5) + 1], param_names[((i - 1) % 5) + 1]>>

\* C1: after the default fetch misses, the sweep fetches one pair per
\* attempt in the fixed order (expirations outermost, the 5 parameter names
\* innermost), no fetch follows a payload that matched, and the quote
\* returned carries the first pair in that order whose payload matched
C1_SweepInOrderStopsAtFirstHit ==
    Sweeping =>
        /\ Len(log) = tried
        /\ \A i \in 1..Len(log) : PairOf(log[i]) = OrderedPair(i)
        /\ \A i \in 1..(Len(log) - 1) : log[i].outcome \in {"fail", "miss"}
        /\ \A i \in 1..Len(log) :
              log[i].outcome = "hit" =>
                  /\ qpc = "done"
                  /\ result.kind = "quote"
                  /\ result.queried_expiration = OrderedPair(i)[1]
                  /\ result.queried_param = OrderedPair(i)[2]
        /\ (result.kind = "quote" /\ log # <<>>) => log[Len(log)].outcome = "hit"

\* a quote found at a pair of the second expiration, after payloads that missed
C1_Witness ==
    /\ qpc = "done"
    /\ result.kind = "quote"
    /\ Len(log) > Len(param_names)
    /\ \E i \in 1..Len(log) : log[i].outcome = "miss"
    /\ result.queried_expiration = expirations[2]

\* C2: when the default payload misses and yields k >= 1 candidates and no
\* sweep payload holds the contract, at most 5k sweep fetches are made and
\* the call ends in the not-found error that reports k
C2_NotFoundAfterAtMost5k ==
    (/\ qpc = "done"
     /\ expirations # <<>>
     /\ \A i \in 1..Len(log) : log[i].outcome # "hit")
    => /\ tried <= 5 * Len(expirations)
       /\ result.kind = "NotFound"
       /\ result.checked = Len(expirations)

\* C2 where every sweep attempt is a failed fetch or a payload that is read
\* and holds no match: all 5k pairs are tried, then not-found reports k
C2_WellFormedSweep ==
    (/\ qpc = "done"
     /\ expirations # <<>>
     /\ \A i \in 1..Len(log) : log[i].outcome \in {"fail", "miss"})
    => /\ tried = 5 * Len(expirations)
       /\ result.kind = "NotFound"
       /\ result.checked = Len(expirations)

\* C3: a sweep attempt whose fetch fails is skipped, not retried: its pair
\* is fetched once, the sweep goes on with the next pair in order (or ends
\* in not-found when it was the last), and a later pair that matches still
\* makes the call return a quote
C3_FailedAttemptSkipped ==
    Sweeping =>
        \A i \in 1..Len(log) :
            log[i].outcome = "fail" =>
                /\ \A j \in 1..Len(log) : j # i => PairOf(log[j]) # PairOf(log[i])
                /\ i < Len(log) => PairOf(log[i + 1]) = OrderedPair(i + 1)
                /\ i = Len(log) =>
                      \/ qpc = "sweep" /\ i < 5 * Len(expirations)
                      \/ /\ qpc = "done"
                         /\ i = 5 * Len(expirations)
                         /\ result.kind = "NotFound"
                /\ \A j \in (i + 1)..Len(log) :
                      log[j].outcome = "hit" => qpc = "done" /\ result.kind = "quote"

\* a fetch failed and a later pair returned the quote
C3_Witness ==
    /\ qpc = "done"
    /\ result.kind = "quote"
    /\ \E i \in 1..Len(log) : log[i].outcome = "fail"

\* the pattern ^\d{6}[cp]\d{8}$ of the code decoder
Digits == {"0", "1", "2", "3", "4", "5", "6", "7", "8", "9"}
IsValidCode(c) ==
    /\ Len(c) = 15
    /\ \A i \in 1..6 : c[i] \in Digits
    /\ c[7] \in {"c", "p"}
    /\ \A i \in 8..15 : c[i] \in Digits

\* C4: a code that does not match ^\d{6}[cp]\d{8}$ is rejected, so
\* get_option_quote_by_code returns no quote for it, whatever the payloads
C4_InvalidCodeNeverQuoted ==
    (qpc = "done" /\ ~IsValidCode(option_code)) => result.kind # "quote"

\* C9: a malformed payload counts as no data: the call ends in a quote or
\* in a not-found error (or in the default request's own failure), never in
\* a structural fault
C9_MalformedPayloadIsNoData ==
    qpc = "done" => result.kind \in {"quote", "NotFound", "NoExpirations", "NetworkError"}

-----------------------------------------------------------------------------
(* Properties of normalize_option_code, under SpecNorm *)

\* the segment the separator is looked for in: stripped, and for a URL the
\* final path segment
Segment(x) ==
    IF Contains(SchemeDelim, Strip(x)) THEN LastPathSegment(Strip(x)) ELSE Strip(x)

\* C5: when the segment holds "---" the result is the lowercased text after
\* its last occurrence, so the result holds no "---"
C5_TailAfterLastSeparator ==
    (npc \in {"once", "twice"} /\ Contains(SlugSep, Segment(raw)))
    => /\ once = Lower(AfterLast(SlugSep, Segment(raw)))
       /\ ~Contains(SlugSep, once)

\* C6: normalizing a normalized value changes nothing
C6_Idempotent == npc = "twice" => twice = once

-----------------------------------------------------------------------------
(* Properties of find_contract_in_payload and extract_expirations, under   *)
(* SpecPayload                                                             *)

\* the rows of data.table.rows when that is a list, else none
ProviderRows(p) ==
    IF /\ IsDict(p) /\ IsDict(Get(p, "data"))
       /\ IsDict(Get(Get(p, "data"), "table"))
       /\ IsList(Get(Get(Get(p, "data"), "table"), "rows"))
    THEN Get(Get(Get(p, "data"), "table"), "rows").v
    ELSE <<>>

\* x is an object with a string field that holds code, letter case ignored
HoldsCode(x, code) ==
    /\ IsDict(x)
    /\ \E k \in DOMAIN x.v : IsStr(x.v[k]) /\ Contains(Lower(code), Lower(x.v[k].v))

Part(row, k) == IF IsDict(row) THEN Get(row, k) ELSE JNull

RowHolds(row, code) ==
    \/ HoldsCode(Part(row, "call"), code)
    \/ HoldsCode(Part(row, "put"), code)
    \/ HoldsCode(row, code)

\* C7: the result comes from the first row whose call object, put object
\* or own fields hold the code; its type is call, else put, else unknown,
\* by the container that matched; None exactly when no row holds the code
C7_FirstHoldingRowWins ==
    ppc \in {"found", "extracted"} =>
        LET rows == ProviderRows(payload)
            hits == {i \in 1..Len(rows) : RowHolds(rows[i], pcode)}
        IN  IF hits = {} THEN found.kind = "none"
            ELSE LET row == rows[CHOOSE i \in hits : \A j \in hits : i <= j]
                 IN  /\ found.kind = "found"
                     /\ found.type =
                            IF HoldsCode(Part(row, "call"), pcode) THEN "call"
                            ELSE IF HoldsCode(Part(row, "put"), pcode) THEN "put"
                            ELSE "unknown"
                     /\ found.raw =
                            IF HoldsCode(Part(row, "call"), pcode) THEN Part(row, "call")
                            ELSE IF HoldsCode(Part(row, "put"), pcode) THEN Part(row, "put")
                            ELSE row

\* C7 wherever find_contract_in_payload returns
C7_WhereItReturns ==
    (ppc \in {"found", "extracted"} /\ found.kind # "exc") => C7_FirstHoldingRowWins

\* the keys of data that hold a list, or an object whose rows is a list
ListKeys(p) ==
    {i \in 1..Len(ExpirationKeys) :
        LET v == Get(Get(p, "data"), ExpirationKeys[i])
        IN  IsList(v) \/ (IsDict(v) /\ IsList(Get(v, "rows")))}

Extracted == ppc = "extracted" /\ ~extracted.exc /\ IsDict(Get(payload, "data"))

\* C8 as stated: the candidates come from one key only, the first of the
\* four that matches (that holds a list, or that yields a candidate),
\* duplicates removed in first-seen order
C8_FirstMatchingKeyOnly ==
    Extracted =>
        LET d == Get(payload, "data")
            ks == ListKeys(payload)
            ys == {i \in ks : KeyCandidates(d, ExpirationKeys[i]) # <<>>}
            From(S) ==
                IF S = {} THEN <<>>
                ELSE Dedup(KeyCandidates(d, ExpirationKeys[CHOOSE i \in S : \A j \in S : i <= j]))
        IN  extracted.list = From(ks) \/ extracted.list = From(ys)

\* the position at which x first occurs in xs
FirstAt(xs, x) == CHOOSE i \in 1..Len(xs) : xs[i] = x /\ \A j \in 1..(i - 1) : xs[j] # x

\* C8 as amended: the candidates are the truthy entries, as strings, of
\* every one of the four keys (expirations, expirationDates, dates,
\* expirationDateList, in that order) that holds a list or an object whose
\* rows is a list; duplicates are removed, first-seen order kept
C8_AllKeysMergedDeduped ==
    Extracted =>
        LET d == Get(payload, "data")
            all == KeyCandidates(d, "expirations") \o KeyCandidates(d, "expirationDates")
                   \o KeyCandidates(d, "dates") \o KeyCandidates(d, "expirationDateList")
            out == extracted.list
        IN  /\ {out[i] : i \in 1..Len(out)} = {all[i] : i \in 1..Len(all)}
            /\ \A i, j \in 1..Len(out) :
                  i < j => out[i] # out[j] /\ FirstAt(all, out[i]) < FirstAt(all, out[j])

\* two keys contributed, and an entry seen twice was kept once
C8_Witness ==
    /\ Extracted
    /\ Cardinality(ListKeys(payload)) >= 2
    /\ extracted.list = <<<<"1">>, <<"e", "2">>, <<"e", "1">>>>

====
